---- MODULE Spec2Model ----
(***************************************************************************)
(* Model of the charging-cost calculator: power_cost.py (day-price cache   *)
(* and UTC price window) and app.py (the per-sample cost generator).       *)
(*                                                                         *)
(* Time is counted in milliseconds since 00:00:00Z of day 0 of the model's *)
(* calendar.  Day 0 is a Sunday, the weekday on which Europe/Oslo changes  *)
(* between CET (+01:00) and CEST (+02:00), at 01:00Z.                      *)
(* Python's datetime resolves microseconds; the model resolves             *)
(* milliseconds, which keeps instants of several days within 32 bits and   *)
(* still tells apart instants within one second.                           *)
(* Money is fixed point: prices and fees in 1/10000 NOK per kWh, energy in *)
(* whole kWh, costs in 1/10000 NOK, the VAT-inclusive total in 1/1000000   *)
(* NOK (so that the factor 1.25 is the integer factor 125).                *)
(***************************************************************************)
EXTENDS Integers, Sequences, FiniteSets, TLC

VARIABLES
    oslo_tz,        \* pytz.timezone("Europe/Oslo"): the offset rule in force
    cache,          \* the files under cache/: (day, area) -> stored JSON or NoFile
    first_fetched,  \* history: what the first successful fetch of a key returned
    calls,          \* history: the fetch_electricity_cost calls of the last step
    price_area,     \* get_charging_session_energy: price_area argument
    status,         \* the generator: "running", "done" (exhausted), "failed" (raised)
    session,        \* index of the session the loop is in (session.Id)
    processed,      \* the energy details whose loop iteration has completed
    costs,          \* get_charging_session_energy: the costs dict (UTC date -> list)
    locals,         \* local variables of the last completed loop iteration
    out,            \* the records yielded so far
    skipped,        \* the "No applicable cost found" diagnostics printed so far
    budget          \* loop iterations left in this exploration

vars == <<oslo_tz, cache, first_fetched, calls, price_area, status, session,
          processed, costs, locals, out, skipped, budget>>

----------------------------------------------------------------------------
(* Bounds of the exploration.                                              *)

MaxSamples == 2     \* loop iterations explored, over all runs
MaxDay == 1         \* UTC dates 0..MaxDay are requested (SpecUtc)

----------------------------------------------------------------------------
(* Time.                                                                   *)

Second == 1000
Hour == 3600 * Second
Day == 24 * Hour

\* An aware datetime: wall-clock reading and UTC offset; the instant is
\* wall - utcoffset.  An ISO-8601 string with offset carries the same two.
DateTime(wall, utcoffset) == [wall |-> wall, utcoffset |-> utcoffset]

Instant(dt) == dt.wall - dt.utcoffset

\* tz rule: offset `before` up to the switch instant, `after` from it on.
utcoffset(tz, t) == IF t < tz.switch THEN tz.before ELSE tz.after

\* The four shapes of Europe/Oslo around a Sunday: CET, CEST, the autumn
\* change (CEST -> CET at 01:00Z) and the spring change (CET -> CEST at 01:00Z).
OsloRules ==
    { [switch |-> Hour, before |-> b * Hour, after |-> a * Hour] :
        b \in {1, 2}, a \in {1, 2} }

\* dt.astimezone(tz): same instant, wall clock of tz.
astimezone(dt, tz) ==
    LET t == Instant(dt) IN DateTime(t + utcoffset(tz, t), utcoffset(tz, t))

\* dt.astimezone(utc)
astimezone_utc(dt) == DateTime(Instant(dt), 0)

\* dateutil parser.parse of an ISO string with offset; datetime.isoformat().
parse(s) == DateTime(s.wall, s.utcoffset)
isoformat(dt) == [wall |-> dt.wall, utcoffset |-> dt.utcoffset]

\* dt.date(), as a day number; dt.weekday() (Monday = 0 ... Sunday = 6).
date(dt) == dt.wall \div Day
weekday(dt) == (6 + date(dt)) % 7

\* dt.replace(hour=h, minute=0, second=0, microsecond=0)
replace_hour(dt, h) == DateTime(date(dt) * Day + h * Hour, dt.utcoffset)

\* Comparison of aware datetimes is comparison of instants.
Before(a, b) == Instant(a) < Instant(b)
NotAfter(a, b) == Instant(a) <= Instant(b)

----------------------------------------------------------------------------
(* The price provider (hvakosterstrommen.no) and its JSON.                 *)

PriceArea == <<"NO1", "NO2", "NO3", "NO4", "NO5">>

ElectricityCost(item) ==
    [NOK_per_kWh |-> item.NOK_per_kWh, EUR_per_kWh |-> item.EUR_per_kWh,
     EXR |-> item.EXR, time_start |-> item.time_start, time_end |-> item.time_end]

ElectricityCostList(data) == [i \in 1..Len(data) |-> ElectricityCost(data[i])]

\* The instant at which local day d begins in Oslo.
LocalDayStart(tz, d) ==
    CHOOSE t \in {d * Day - Hour, d * Day - 2 * Hour} : t + utcoffset(tz, t) = d * Day

\* One JSON item: a price for [a, b), stamped in Oslo local time.
Item(tz, price, a, b) ==
    [NOK_per_kWh |-> price, EUR_per_kWh |-> price \div 10, EXR |-> 10,
     time_start |-> isoformat(astimezone(DateTime(a, 0), tz)),
     time_end |-> isoformat(astimezone(DateTime(b, 0), tz))]

\* The list for the cut points cuts[1] < ... < cuts[n]: n - 1 contiguous items.
Contiguous(tz, cuts) ==
    [i \in 1..(Len(cuts) - 1) |-> Item(tz, 15000 + 5000 * (i - 1), cuts[i], cuts[i + 1])]

\* Bodies the provider may answer a request for local day d with: the day cut
\* at UTC midnight; the same with a gap of five hours after UTC midnight; the
\* same with the first item running five hours into the second.
DayData(tz, d) ==
    LET S == LocalDayStart(tz, d)
        E == LocalDayStart(tz, d + 1)
        M == d * Day
        G == d * Day + 5 * Hour
    IN  { Contiguous(tz, <<S, M, E>>),
          <<Item(tz, 15000, S, M), Item(tz, 20000, G, E)>>,
          <<Item(tz, 15000, S, G), Item(tz, 20000, M, E)>> }

\* A response of requests.get: status code and, for 200, the JSON body.
Responses(tz, d) ==
    { [status_code |-> 200, json |-> data] : data \in DayData(tz, d) }
        \cup { [status_code |-> 404, json |-> <<>>] }

\* What the provider answers during a step: nothing when the step cannot
\* ask it (the UTC date is in the costs dict, or the file exists).
NoResponse == [status_code |-> 0, json |-> <<>>]

Answers(files, tz, d, area, known) ==
    IF known \/ <<d, area>> \in DOMAIN files THEN {NoResponse} ELSE Responses(tz, d)

----------------------------------------------------------------------------
(* power_cost.py                                                           *)


\* cache/<year>/<month>/<day>_<area>.json; a file exists iff its path is in
\* the domain of `files`.
cache_path(d, area) == <<d, area>>

\* fetch_electricity_cost without the test of line 55: a non-200 answer gives
\* an empty list instead of raising.
fetch_electricity_cost_swallow(files, d, area, response) ==
    LET path == cache_path(d, area) IN
    IF path \in DOMAIN files
    THEN [key |-> path, files |-> files, requests |-> 0, status_code |-> 0,
          raised |-> FALSE, result |-> ElectricityCostList(files[path])]
    ELSE IF response.status_code = 200
         THEN [key |-> path,
               files |-> (path :> response.json) @@ files,
               requests |-> 1, status_code |-> response.status_code,
               raised |-> FALSE,
               result |-> ElectricityCostList(response.json)]
         ELSE [key |-> path, files |-> files, requests |-> 1,
               status_code |-> response.status_code, raised |-> FALSE,
               result |-> <<>>]

\* fetch_electricity_cost without the test of line 43: the provider is asked
\* whether or not the file exists.
fetch_electricity_cost_nocache(files, d, area, response) ==
    LET path == cache_path(d, area) IN
    IF response.status_code = 200
    THEN [key |-> path,
          files |-> (path :> response.json) @@ files,
          requests |-> 1, status_code |-> response.status_code,
          raised |-> FALSE,
          result |-> ElectricityCostList(response.json)]
    ELSE [key |-> path, files |-> files, requests |-> 1,
          status_code |-> response.status_code, raised |-> TRUE,
          result |-> <<>>]

\* fetch_electricity_cost(date, area) against the files `files`, the provider
\* answering `response` if asked.  The outcome: the files afterwards, the
\* number of requests made, the status code received (0: none), whether the
\* call raised, and the list returned.
fetch_electricity_cost(files, d, area, response) ==
    LET path == cache_path(d, area) IN
    IF path \in DOMAIN files
    THEN [key |-> path, files |-> files, requests |-> 0, status_code |-> 0,
          raised |-> FALSE, result |-> ElectricityCostList(files[path])]
    ELSE IF response.status_code = 200
         THEN [key |-> path,
               files |-> (path :> response.json) @@ files,
               requests |-> 1, status_code |-> response.status_code,
               raised |-> FALSE,
               result |-> ElectricityCostList(response.json)]
         ELSE [key |-> path, files |-> files, requests |-> 1,
               status_code |-> response.status_code, raised |-> TRUE,
               result |-> <<>>]

\* The call record kept in the history variable `calls`.
CallOf(f, date_utc) ==
    [date_utc |-> date_utc, key |-> f.key, requests |-> f.requests,
     status_code |-> f.status_code, raised |-> f.raised, result |-> f.result]

\* end_date_oslo taken from the start of the UTC day: the single-date branch.
end_date_oslo_same(tz, date_utc) == date(astimezone(DateTime(date_utc * Day, 0), tz))

\* The bounds of the UTC day and the local days they fall on (lines 83-88).
start_date_utc(date_utc) == DateTime(date_utc * Day, 0)
end_date_utc(date_utc) == DateTime(Instant(start_date_utc(date_utc)) + Day - Second, 0)
start_date_oslo(tz, date_utc) == date(astimezone(start_date_utc(date_utc), tz))
end_date_oslo(tz, date_utc) == date(astimezone(end_date_utc(date_utc), tz))

\* The test of line 103: the cost is within the UTC time range.
in_utc_range(time_start_utc, time_end_utc, date_utc) ==
    /\ Before(start_date_utc(date_utc), time_end_utc)
    /\ NotAfter(time_start_utc, end_date_utc(date_utc))

\* The filter and UTC re-projection of fetch_electricity_cost_utc (lines 96-107).
RECURSIVE costs_utc(_, _)
costs_utc(costs_oslo, date_utc) ==
    IF costs_oslo = <<>> THEN <<>>
    ELSE LET cost == Head(costs_oslo)
             time_start_utc == astimezone_utc(parse(cost.time_start))
             time_end_utc == astimezone_utc(parse(cost.time_end))
             rest == costs_utc(Tail(costs_oslo), date_utc)
         IN  IF in_utc_range(time_start_utc, time_end_utc, date_utc)
             THEN <<[cost EXCEPT !.time_start = isoformat(time_start_utc),
                                 !.time_end = isoformat(time_end_utc)]>> \o rest
             ELSE rest

\* fetch_electricity_cost_utc that saves the UTC-rebased list in the file of
\* the first local day.
fetch_electricity_cost_utc_store(files, tz, date_utc, area, r1, r2) ==
    LET f1 == fetch_electricity_cost(files, start_date_oslo(tz, date_utc), area, r1)
        f2 == fetch_electricity_cost(f1.files, end_date_oslo(tz, date_utc), area, r2)
    IN  IF f1.raised
        THEN [files |-> f1.files, calls |-> <<CallOf(f1, date_utc)>>, raised |-> TRUE,
              result |-> <<>>]
        ELSE IF start_date_oslo(tz, date_utc) = end_date_oslo(tz, date_utc)
        THEN [files |-> f1.files, calls |-> <<CallOf(f1, date_utc)>>, raised |-> FALSE,
              result |-> costs_utc(f1.result, date_utc)]
        ELSE IF f2.raised
        THEN [files |-> f2.files, calls |-> <<CallOf(f1, date_utc), CallOf(f2, date_utc)>>,
              raised |-> TRUE, result |-> <<>>]
        ELSE [files |-> [k \in DOMAIN f2.files |->
                            IF k = f1.key
                            THEN costs_utc(f1.result \o f2.result, date_utc)
                            ELSE f2.files[k]],
              calls |-> <<CallOf(f1, date_utc), CallOf(f2, date_utc)>>,
              raised |-> FALSE,
              result |-> costs_utc(f1.result \o f2.result, date_utc)]

\* fetch_electricity_cost_utc(date_utc, area); r1 and r2 are what the provider
\* answers to the first and the second request, if they are made.
fetch_electricity_cost_utc(files, tz, date_utc, area, r1, r2) ==
    LET f1 == fetch_electricity_cost(files, start_date_oslo(tz, date_utc), area, r1)
        f2 == fetch_electricity_cost(f1.files, end_date_oslo(tz, date_utc), area, r2)
    IN  IF f1.raised
        THEN [files |-> f1.files, calls |-> <<CallOf(f1, date_utc)>>, raised |-> TRUE,
              result |-> <<>>]
        ELSE IF start_date_oslo(tz, date_utc) = end_date_oslo(tz, date_utc)
        THEN [files |-> f1.files, calls |-> <<CallOf(f1, date_utc)>>, raised |-> FALSE,
              result |-> costs_utc(f1.result, date_utc)]
        ELSE IF f2.raised
        THEN [files |-> f2.files, calls |-> <<CallOf(f1, date_utc), CallOf(f2, date_utc)>>,
              raised |-> TRUE, result |-> <<>>]
        ELSE [files |-> f2.files, calls |-> <<CallOf(f1, date_utc), CallOf(f2, date_utc)>>,
              raised |-> FALSE,
              result |-> costs_utc(f1.result \o f2.result, date_utc)]

----------------------------------------------------------------------------
(* app.py                                                                  *)

low_net_usage_fee == 2259
high_net_usage_fee == 3059

\* The scan with the end of the interval included (<= cost_end_time).
RECURSIVE applicable_cost_closed(_, _)
applicable_cost_closed(cost_list, energy_datetime) ==
    IF cost_list = <<>> THEN <<>>
    ELSE LET cost == Head(cost_list)
             cost_start_time == parse(cost.time_start)
             cost_end_time == parse(cost.time_end)
         IN  IF NotAfter(cost_start_time, energy_datetime)
                  /\ NotAfter(energy_datetime, cost_end_time)
             THEN <<cost>>
             ELSE applicable_cost_closed(Tail(cost_list), energy_datetime)

\* The scan that keeps the last cost of the list when none holds the instant.
RECURSIVE applicable_cost_or_last(_, _)
applicable_cost_or_last(cost_list, energy_datetime) ==
    IF cost_list = <<>> THEN <<>>
    ELSE LET cost == Head(cost_list)
             cost_start_time == parse(cost.time_start)
             cost_end_time == parse(cost.time_end)
         IN  IF \/ NotAfter(cost_start_time, energy_datetime)
                     /\ Before(energy_datetime, cost_end_time)
                \/ Tail(cost_list) = <<>>
             THEN <<cost>>
             ELSE applicable_cost_or_last(Tail(cost_list), energy_datetime)

\* The scan of lines 51-58: the first cost of the list whose
\* [time_start, time_end) holds energy_datetime; <<>> stands for None.
RECURSIVE applicable_cost(_, _)
applicable_cost(cost_list, energy_datetime) ==
    IF cost_list = <<>> THEN <<>>
    ELSE LET cost == Head(cost_list)
             cost_start_time == parse(cost.time_start)
             cost_end_time == parse(cost.time_end)
         IN  IF NotAfter(cost_start_time, energy_datetime)
                  /\ Before(energy_datetime, cost_end_time)
             THEN <<cost>>
             ELSE applicable_cost(Tail(cost_list), energy_datetime)

\* Lines 68-78: the net usage fee per kWh for energy_datetime.
net_usage_fee_per_kwh(energy_datetime) ==
    LET daytime_start == replace_hour(energy_datetime, 6)
        daytime_end == replace_hour(energy_datetime, 22)
        is_weekend == weekday(energy_datetime) >= 5
    IN  IF NotAfter(daytime_start, energy_datetime)
             /\ Before(energy_datetime, daytime_end) /\ ~is_weekend
        THEN high_net_usage_fee
        ELSE low_net_usage_fee

\* The record with the VAT factor applied to the energy cost alone.
ChargingSessionEnergy_VatOnEnergy(session_id, energy_datetime, energy, cost) ==
    LET energy_cost == energy.Energy * cost.NOK_per_kWh
        net_usage_fee == energy.Energy * net_usage_fee_per_kwh(energy_datetime)
        total_cost_without_vat == energy_cost + net_usage_fee
        total_cost_with_vat == energy_cost * 125 + net_usage_fee * 100
    IN  [SessionId |-> session_id,
         Timestamp |-> energy_datetime,
         Energy |-> energy.Energy,
         EnergyUsageFee |-> cost.NOK_per_kWh,
         NetUsageFee |-> net_usage_fee,
         EnergyCost |-> energy_cost,
         NetUsageCost |-> net_usage_fee,
         TotalCostNoVat |-> total_cost_without_vat,
         TotalCostWithVAT |-> total_cost_with_vat,
         CostCurrency |-> "NOK"]

\* Lines 65-99: the record yielded for an energy detail and its cost.
ChargingSessionEnergy(session_id, energy_datetime, energy, cost) ==
    LET energy_cost == energy.Energy * cost.NOK_per_kWh
        net_usage_fee == energy.Energy * net_usage_fee_per_kwh(energy_datetime)
        total_cost_without_vat == energy_cost + net_usage_fee
        total_cost_with_vat == total_cost_without_vat * 125
    IN  [SessionId |-> session_id,
         Timestamp |-> energy_datetime,
         Energy |-> energy.Energy,
         EnergyUsageFee |-> cost.NOK_per_kWh,
         NetUsageFee |-> net_usage_fee,
         EnergyCost |-> energy_cost,
         NetUsageCost |-> net_usage_fee,
         TotalCostNoVat |-> total_cost_without_vat,
         TotalCostWithVAT |-> total_cost_with_vat,
         CostCurrency |-> "NOK"]

\* The charging history (ChargingHistory.Data): two sessions, Ids 1 and 2;
\* the energy details (Timestamp string, Energy) each one may hold.  Session
\* 1: Sunday 23:00Z and Monday 00:00Z; session 2: Monday 04:30Z, written with
\* offset +02:00, and Monday 10:30Z.
SessionDetails ==
    << { [Timestamp |-> isoformat(DateTime(23 * Hour, 0)), Energy |-> 5],
         [Timestamp |-> isoformat(DateTime(Day, 0)), Energy |-> 0] },
       { [Timestamp |-> isoformat(DateTime(Day + 6 * Hour + 1800 * Second, 2 * Hour)),
          Energy |-> 10],
         [Timestamp |-> isoformat(DateTime(Day + 10 * Hour + 1800 * Second, 0)),
          Energy |-> 10] } >>

\* The local variables kept: energy_datetime, applicable_cost (<<>> for None)
\* and net_usage_fee_per_kwh (0 while unassigned).
NoLocals ==
    [energy_datetime |-> DateTime(0, 0), applicable_cost |-> <<>>,
     net_usage_fee_per_kwh |-> 0]

\* The first successful result per key, extended by the calls cs.
RECURSIVE Remember(_, _)
Remember(first, cs) ==
    IF cs = <<>> THEN first
    ELSE LET c == Head(cs)
         IN  Remember(IF c.raised \/ c.key \in DOMAIN first
                      THEN first ELSE (c.key :> c.result) @@ first, Tail(cs))

Init ==
    /\ oslo_tz \in OsloRules
    /\ cache = <<>>
    /\ first_fetched = <<>>
    /\ calls = <<>>
    /\ price_area = PriceArea[2]
    /\ status = "running"
    /\ session = 1
    /\ processed = <<>>
    /\ costs = <<>>
    /\ locals = NoLocals
    /\ out = <<>>
    /\ skipped = <<>>
    /\ budget = MaxSamples

\* One iteration of the loops of lines 37-99 for the next energy detail of
\* the history: `energy`, of the current session or of the next one.
ProcessSample ==
    /\ status = "running"
    /\ budget > 0
    /\ \E sid \in session..Len(SessionDetails) : \E energy \in SessionDetails[sid] :
        LET original_datetime == parse(energy.Timestamp)
            energy_datetime == astimezone_utc(original_datetime)
            energy_date == date(energy_datetime)
        IN  \E r1 \in Answers(cache, oslo_tz, start_date_oslo(oslo_tz, energy_date),
                               price_area, energy_date \in DOMAIN costs),
               r2 \in Answers(cache, oslo_tz, end_date_oslo(oslo_tz, energy_date),
                               price_area, energy_date \in DOMAIN costs) :
            LET known == energy_date \in DOMAIN costs
                f == fetch_electricity_cost_utc(cache, oslo_tz, energy_date,
                                                price_area, r1, r2)
                costs1 == IF known THEN costs ELSE (energy_date :> f.result) @@ costs
                found == applicable_cost(costs1[energy_date], energy_datetime)
            IN  /\ budget' = budget - 1
                /\ session' = sid
                /\ UNCHANGED <<oslo_tz, price_area>>
                /\ IF ~known /\ f.raised
                   THEN /\ status' = "failed"
                        /\ cache' = f.files
                        /\ calls' = f.calls
                        /\ first_fetched' = Remember(first_fetched, f.calls)
                        /\ locals' = [NoLocals EXCEPT !.energy_datetime = energy_datetime]
                        /\ UNCHANGED <<processed, costs, out, skipped>>
                   ELSE /\ status' = "running"
                        /\ cache' = IF known THEN cache ELSE f.files
                        /\ calls' = IF known THEN <<>> ELSE f.calls
                        /\ first_fetched' =
                              IF known THEN first_fetched
                              ELSE Remember(first_fetched, f.calls)
                        /\ costs' = costs1
                        /\ processed' = Append(processed, [SessionId |-> sid, energy |-> energy])
                        /\ IF found = <<>>
                           THEN /\ skipped' = Append(skipped,
                                        [SessionId |-> sid, Timestamp |-> energy.Timestamp])
                                /\ locals' = [NoLocals EXCEPT !.energy_datetime = energy_datetime]
                                /\ out' = out
                           ELSE /\ out' = Append(out,
                                        ChargingSessionEnergy(sid, energy_datetime, energy, found[1]))
                                /\ locals' =
                                     [energy_datetime |-> energy_datetime,
                                      applicable_cost |-> found,
                                      net_usage_fee_per_kwh |-> net_usage_fee_per_kwh(energy_datetime)]
                                /\ skipped' = skipped

\* The history is exhausted: the generator returns.
Exhausted ==
    /\ status = "running"
    /\ status' = "done"
    /\ calls' = <<>>
    /\ UNCHANGED <<oslo_tz, cache, first_fetched, price_area, session, processed,
                   costs, locals, out, skipped, budget>>

\* A later run of the program on the same cache directory.
StartRun ==
    /\ status \in {"done", "failed"}
    /\ budget > 0
    /\ price_area' \in {PriceArea[1], PriceArea[2]}
    /\ status' = "running"
    /\ session' = 1
    /\ processed' = <<>>
    /\ costs' = <<>>
    /\ locals' = NoLocals
    /\ out' = <<>>
    /\ skipped' = <<>>
    /\ calls' = <<>>
    /\ UNCHANGED <<oslo_tz, cache, first_fetched, budget>>

Next == ProcessSample \/ Exhausted \/ StartRun

Spec == Init /\ [][Next]_vars

----------------------------------------------------------------------------
(* Properties of the cost generator.                                       *)

\* The last loop iteration yielded a record (it is the last of `out`).
Yielded == status # "failed" /\ locals.applicable_cost # <<>> /\ out # <<>>

LastRecord == out[Len(out)]

\* The distribution tariff read off a wall clock: low at weekends and outside
\* [06:00:00, 22:00:00), high otherwise.
TariffRate(local) ==
    LET time_of_day == local.wall % Day
    IN  IF weekday(local) >= 5 \/ time_of_day < 6 * Hour \/ time_of_day >= 22 * Hour
        THEN low_net_usage_fee
        ELSE high_net_usage_fee

\* C1: the fee rate applied to a yielded record is the tariff of the sample's
\* wall-clock time in Europe/Oslo (its UTC instant converted to that zone).
C1_RateFromOsloTime ==
    Yielded =>
        locals.net_usage_fee_per_kwh =
            TariffRate(astimezone(locals.energy_datetime, oslo_tz))

\* C6: a yielded record carries the selected per-kWh tariff rate in
\* NetUsageFee and the matched interval's NOK price in EnergyUsageFee;
\* NetUsageCost is Energy times that rate, EnergyCost is Energy times that price.
C6_RecordCarriesRates ==
    Yielded =>
        /\ LastRecord.NetUsageFee = locals.net_usage_fee_per_kwh
        /\ LastRecord.EnergyUsageFee = locals.applicable_cost[1].NOK_per_kWh
        /\ LastRecord.NetUsageCost = LastRecord.Energy * locals.net_usage_fee_per_kwh
        /\ LastRecord.EnergyCost =
               LastRecord.Energy * locals.applicable_cost[1].NOK_per_kWh

\* C7: in every yielded record TotalCostNoVat = EnergyCost + NetUsageCost and
\* TotalCostWithVAT = TotalCostNoVat * 1.25 = TotalCostNoVat * 5 / 4, both
\* sides taken in 1/1000000 NOK; with
\* Energy = 0 all four amounts are 0.
C7_Totals ==
    \A i \in 1..Len(out) :
        /\ out[i].TotalCostNoVat = out[i].EnergyCost + out[i].NetUsageCost
        /\ 4 * out[i].TotalCostWithVAT = 5 * (100 * out[i].TotalCostNoVat)
        /\ out[i].Energy = 0 =>
               /\ out[i].EnergyCost = 0 /\ out[i].NetUsageCost = 0
               /\ out[i].TotalCostNoVat = 0 /\ out[i].TotalCostWithVAT = 0

\* Reached: a run that yielded a record with Energy = 0 and one with a
\* positive net usage cost and a positive energy cost.
C7_Witness ==
    /\ \E i \in 1..Len(out) : out[i].Energy = 0
    /\ \E i \in 1..Len(out) : out[i].EnergyCost > 0 /\ out[i].NetUsageCost > 0

\* The interval [time_start, time_end) of a cost holds the instant t.
Holds(cost, t) == Instant(parse(cost.time_start)) <= t /\ t < Instant(parse(cost.time_end))

\* The energy detail of the last completed iteration, as an instant.
LastInstant == Instant(parse(processed[Len(processed)].energy.Timestamp))

\* C8: the match selects the first interval, in list order, with
\* start <= instant < end, and none when no interval passes the test.
C8_FirstHalfOpenMatch ==
    (status # "failed" /\ processed # <<>>) =>
        LET list == costs[LastInstant \div Day]
            hits == { i \in 1..Len(list) : Holds(list[i], LastInstant) }
        IN  IF hits = {}
            THEN locals.applicable_cost = <<>>
            ELSE \E i \in hits :
                    /\ \A j \in hits : i <= j
                    /\ locals.applicable_cost = <<list[i]>>

\* Reached: the instant is the end of one interval of the list and the start
\* of the next one, which is the one selected.
C8_Witness ==
    /\ status # "failed" /\ processed # <<>>
    /\ LET list == costs[LastInstant \div Day]
       IN  \E i \in 1..Len(list), j \in 1..Len(list) :
              /\ i < j
              /\ Instant(parse(list[i].time_end)) = LastInstant
              /\ Instant(parse(list[j].time_start)) = LastInstant
              /\ locals.applicable_cost = <<list[j]>>

\* An energy detail of `processed` is held by some interval of its UTC date.
HasMatch(p) ==
    LET t == Instant(parse(p.energy.Timestamp))
        list == costs[t \div Day]
    IN  \E i \in 1..Len(list) : Holds(list[i], t)

\* C4: an energy detail that no interval holds yields no record and does not
\* stop the run; `out` holds exactly one record per detail that some interval
\* holds, in the order of the input.
C4_SkipUnmatched ==
    LET matched == SelectSeq(processed, HasMatch)
    IN  /\ Len(out) = Len(matched)
        /\ \A i \in 1..Len(out) :
              /\ out[i].SessionId = matched[i].SessionId
              /\ Instant(out[i].Timestamp) = Instant(parse(matched[i].energy.Timestamp))
              /\ out[i].Energy = matched[i].energy.Energy
        /\ Len(skipped) = Len(processed) - Len(matched)
        /\ status = "failed" => (calls # <<>> /\ calls[Len(calls)].raised)

\* Reached: a run whose first detail found no interval and whose second one
\* yielded a record.
C4_Witness ==
    /\ Len(processed) = 2 /\ status = "running"
    /\ ~HasMatch(processed[1]) /\ HasMatch(processed[2])
    /\ Len(out) = 1 /\ Len(skipped) = 1
    /\ out[1].Timestamp = astimezone_utc(parse(processed[2].energy.Timestamp))

\* C5: a non-200 answer is fatal.  The call that received it made one
\* request, raised, left no file for its key and is the last call of the run,
\* which has failed; the failing step yields nothing and retracts nothing, and
\* a failed run yields nothing more.
C5_FetchFailureIsFatal ==
    /\ [](\A i \in 1..Len(calls) :
            calls[i].status_code \notin {0, 200} =>
                /\ status = "failed"
                /\ i = Len(calls)
                /\ calls[i].raised
                /\ calls[i].requests = 1
                /\ calls[i].key \notin DOMAIN cache)
    /\ [][/\ status' = "failed" => out' = out
          /\ status = "failed" =>
                \/ out' = out /\ processed' = processed
                \/ status' = "running" /\ out' = <<>> /\ processed' = <<>>]_vars

\* Reached: a run that failed on a non-200 answer after it had yielded a record.
C5_Witness ==
    /\ status = "failed" /\ out # <<>>
    /\ calls # <<>> /\ calls[Len(calls)].status_code = 404

\* C3: once a call for a key has succeeded, every later call for that key
\* makes no request and returns the list that first call returned.
C3_CacheHit ==
    [][\A i \in 1..Len(calls') :
          calls'[i].key \in DOMAIN first_fetched =>
              /\ calls'[i].requests = 0
              /\ ~calls'[i].raised
              /\ calls'[i].result = first_fetched[calls'[i].key]]_vars

\* Reached: in a later run on the same files (more iterations were spent than
\* this run has completed), a call answered from the file without a request.
C3_Witness ==
    /\ status = "running" /\ budget < MaxSamples - Len(processed)
    /\ \E i \in 1..Len(calls) :
          /\ calls[i].requests = 0
          /\ calls[i].result # <<>>
          /\ calls[i].result = first_fetched[calls[i].key]

\* C9: the files only grow.  A file once present stays and keeps its content;
\* its content is what the first successful fetch of its key returned; the
\* UTC re-projection leaves the files as they are.
C9_CacheOnlyGrows ==
    /\ [][\A k \in DOMAIN cache : k \in DOMAIN cache' /\ cache'[k] = cache[k]]_vars
    /\ [](/\ DOMAIN cache = DOMAIN first_fetched
          /\ \A k \in DOMAIN cache : ElectricityCostList(cache[k]) = first_fetched[k])

\* Reached: three files, and a UTC list in the costs dict that holds re-based
\* items (offset 0) none of which is an item of a file.
C9_Witness ==
    /\ Cardinality(DOMAIN cache) >= 3
    /\ \E d \in DOMAIN costs :
          /\ costs[d] # <<>>
          /\ \A i \in 1..Len(costs[d]) :
                /\ costs[d][i].time_start.utcoffset = 0
                /\ \A k \in DOMAIN cache : \A j \in 1..Len(cache[k]) :
                      cache[k][j] # costs[d][i]

\* C10: Oslo being ahead of UTC, the UTC date D resolves to the local dates D
\* and D + 1; fetch_electricity_cost_utc asks for both, in this order, so a
\* record of UTC date D is yielded only when both files exist, and a failed
\* fetch of D + 1 fails the run.
C10_TwoLocalDates ==
    /\ \A D \in 0..MaxDay :
          start_date_oslo(oslo_tz, D) = D /\ end_date_oslo(oslo_tz, D) = D + 1
    /\ Len(calls) <= 2
    /\ \A i \in 1..Len(calls) :
          calls[i].key = cache_path(calls[i].date_utc + (i - 1), price_area)
    /\ Len(calls) = 1 => calls[1].raised
    /\ (Len(calls) = 2 /\ calls[2].raised) => status = "failed"
    /\ \A i \in 1..Len(out) :
          /\ cache_path(date(out[i].Timestamp), price_area) \in DOMAIN cache
          /\ cache_path(date(out[i].Timestamp) + 1, price_area) \in DOMAIN cache

\* Reached: a run failed by the fetch of local date D + 1 although an interval
\* of local date D holds the instant of the energy detail.
C10_Witness ==
    /\ status = "failed"
    /\ Len(calls) = 2 /\ calls[2].raised
    /\ applicable_cost(costs_utc(calls[1].result, calls[1].date_utc),
                       locals.energy_datetime) # <<>>

----------------------------------------------------------------------------
(* The UTC price window on its own: fetch_electricity_cost_utc called for   *)
(* UTC dates, as by the example at the end of power_cost.py, against a      *)
(* provider whose list for a local day partitions that day.                 *)

\* The elements of a finite set of integers in increasing order.
RECURSIVE Sorted(_)
Sorted(set) ==
    IF set = {} THEN <<>>
    ELSE LET m == CHOOSE x \in set : \A y \in set : x <= y
         IN  <<m>> \o Sorted(set \ {m})

\* Bodies that partition local day d: the day cut at any of 23:59:59Z,
\* 23:59:59.5Z and 24:00:00Z of the UTC day that ends within it.
PartitionData(tz, d) ==
    LET S == LocalDayStart(tz, d)
        E == LocalDayStart(tz, d + 1)
        M == d * Day
    IN  { Contiguous(tz, Sorted({S, E} \cup X)) :
            X \in SUBSET {M - Second, M - Second \div 2, M} }

PartitionAnswers(files, tz, d, area) ==
    IF <<d, area>> \in DOMAIN files THEN {NoResponse}
    ELSE { [status_code |-> 200, json |-> data] : data \in PartitionData(tz, d) }

InitUtc ==
    /\ oslo_tz \in OsloRules
    /\ cache = <<>>
    /\ first_fetched = <<>>
    /\ calls = <<>>
    /\ price_area = PriceArea[1]
    /\ status = "running"
    /\ session = 1
    /\ processed = <<>>
    /\ costs = <<>>
    /\ locals = NoLocals
    /\ out = <<>>
    /\ skipped = <<>>
    /\ budget = 0

\* prices = fetch_electricity_cost_utc(date, area), kept in `costs` by date.
FetchUtcDay ==
    \E date_utc \in 0..MaxDay :
      \E r1 \in PartitionAnswers(cache, oslo_tz, start_date_oslo(oslo_tz, date_utc),
                                 price_area),
         r2 \in PartitionAnswers(cache, oslo_tz, end_date_oslo(oslo_tz, date_utc),
                                 price_area) :
        LET f == fetch_electricity_cost_utc(cache, oslo_tz, date_utc, price_area, r1, r2)
        IN  /\ ~f.raised
            /\ cache' = f.files
            /\ calls' = f.calls
            /\ first_fetched' = Remember(first_fetched, f.calls)
            /\ costs' = (date_utc :> f.result) @@ costs
            /\ UNCHANGED <<oslo_tz, price_area, status, session, processed, locals,
                           out, skipped, budget>>

NextUtc == FetchUtcDay

SpecUtc == InitUtc /\ [][NextUtc]_vars

\* The stored list of local day d is contiguous, without overlap, and runs
\* from the start of that local day to the start of the next.
IsDayPartition(data, tz, d) ==
    /\ data # <<>>
    /\ Instant(parse(data[1].time_start)) = LocalDayStart(tz, d)
    /\ Instant(parse(data[Len(data)].time_end)) = LocalDayStart(tz, d + 1)
    /\ \A i \in 1..Len(data) :
          Instant(parse(data[i].time_start)) < Instant(parse(data[i].time_end))
    /\ \A i \in 1..(Len(data) - 1) :
          Instant(parse(data[i].time_end)) = Instant(parse(data[i + 1].time_start))

\* Every instant of UTC day D lies in exactly one interval of the list, and
\* every interval of the list meets the day.  The instants tried are the start
\* and the last millisecond of the day and every interval bound within it:
\* a gap or an overlap within the day begins at one of them.
CoversUtcDay(list, D) ==
    LET bounds == { Instant(parse(list[i].time_start)) : i \in 1..Len(list) }
                    \cup { Instant(parse(list[i].time_end)) : i \in 1..Len(list) }
        tried == { t \in bounds \cup {D * Day, D * Day + Day - 1} :
                     D * Day <= t /\ t < D * Day + Day }
    IN  /\ \A t \in tried :
              Cardinality({ i \in 1..Len(list) : Holds(list[i], t) }) = 1
        /\ \A i \in 1..Len(list) :
              /\ Instant(parse(list[i].time_start)) < D * Day + Day
              /\ Instant(parse(list[i].time_end)) > D * Day

\* C2: when the stored lists of local days D and D + 1 partition those days,
\* the list returned for UTC date D covers that UTC day exactly, without gap
\* or overlap, and holds no interval wholly outside it.
C2_UtcDayCoverage ==
    \A D \in DOMAIN costs :
        ( /\ IsDayPartition(cache[cache_path(D, price_area)], oslo_tz, D)
          /\ IsDayPartition(cache[cache_path(D + 1, price_area)], oslo_tz, D + 1) )
        => CoversUtcDay(costs[D], D)

\* All interval bounds of the stored list fall on whole seconds.
OnWholeSeconds(data) ==
    \A i \in 1..Len(data) :
        /\ Instant(parse(data[i].time_start)) % Second = 0
        /\ Instant(parse(data[i].time_end)) % Second = 0

\* The coverage of C2 for lists whose bounds fall on whole seconds.
UtcDayCoverageOnWholeSeconds ==
    \A D \in DOMAIN costs :
        ( /\ IsDayPartition(cache[cache_path(D, price_area)], oslo_tz, D)
          /\ IsDayPartition(cache[cache_path(D + 1, price_area)], oslo_tz, D + 1)
          /\ OnWholeSeconds(cache[cache_path(D, price_area)])
          /\ OnWholeSeconds(cache[cache_path(D + 1, price_area)]) )
        => CoversUtcDay(costs[D], D)

====
